---- MODULE Spec2Model ----
(***************************************************************************)
(* Readucks (readucks/readucks.py): command line parsing, input file       *)
(* discovery, the per-read report and the per-run barcode counts.          *)
(*                                                                         *)
(* Strings that the code inspects character by character (file names and   *)
(* paths) are sequences of ASCII codes, so that str.lower, str.endswith    *)
(* and the ordering used by sorted() are computed as Python computes them. *)
(* Floats are exact rationals [n |-> numerator, d |-> denominator > 0].    *)
(*                                                                         *)
(* What the run prints to the terminal (progress lines, the summary, the   *)
(* alignments at verbosity 2) is not part of the state. The demuxer and    *)
(* the barcode tables are other modules of the package; they are modelled  *)
(* from the design document: a read is reduced to what its two end windows *)
(* match, and demux_read is the classifier of section 4.5.                 *)
(*                                                                         *)
(* A definition introduced as a "faulty variant" is not part of the        *)
(* program: it is the definition that follows it with one plausible        *)
(* mistake, kept to show that the properties below tell the two apart.     *)
(***************************************************************************)
EXTENDS Integers, Sequences, FiniteSets, TLC

VARIABLES
    fs,                  \* the file system found by the run (never changes)
    output_file,         \* the file at output_path: [exists, lines]
    pc,                  \* position of the program
    entry,               \* "none" | "cli" (main) | "api" (process_files called directly)
    exit_msg,            \* message of sys.exit, or name of the uncaught exception
    argv,                \* the command line, as options given or not given
    args,                \* the namespace returned by parser.parse_args()
    barcode_set,         \* parameters of process_files ...
    limit_barcodes_to,
    single_barcode,
    threshold,
    secondary_threshold,
    read_files,          \* process_files: result of get_input_files
    barcodes,            \* process_files: the catalog handed to process_read_file
    barcode_counts,      \* process_files: defaultdict(int)
    index,               \* process_files: 1-based position in read_files
    read_pos             \* process_read_file: reads taken from the current file

vars == <<fs, output_file, pc, entry, exit_msg, argv, args, barcode_set, limit_barcodes_to,
          single_barcode, threshold, secondary_threshold, read_files, barcodes,
          barcode_counts, index, read_pos>>

params == <<barcode_set, limit_barcodes_to, single_barcode, threshold, secondary_threshold>>

locals == <<read_files, barcodes, barcode_counts, index, read_pos>>

-----------------------------------------------------------------------------
(* Bounds *)

\* Number of reads in the largest input file of the modelled file system.
MaxReads == 2

-----------------------------------------------------------------------------
(* Rationals standing for Python floats *)

Rat(n, d) == [n |-> n, d |-> d]

\* x >= y
RatGE(x, y) == x.n * y.d >= y.n * x.d

\* x == y
RatEq(x, y) == x.n * y.d = y.n * x.d

\* Python truth value of a float: non-zero
Truthy(x) == x.n # 0

\* x / 100.0
Div100(x) == Rat(x.n, x.d * 100)

-----------------------------------------------------------------------------
(* Strings as sequences of ASCII codes *)

\* str.lower() on ASCII: 'A'..'Z' (65..90) -> 'a'..'z'
Lower(s) == [i \in 1..Len(s) |-> IF s[i] >= 65 /\ s[i] <= 90 THEN s[i] + 32 ELSE s[i]]

\* str.endswith(suffix)
EndsWith(s, suffix) ==
    /\ Len(s) >= Len(suffix)
    /\ SubSeq(s, Len(s) - Len(suffix) + 1, Len(s)) = suffix

\* Python's < on str: lexicographic by code point, a proper prefix is smaller
RECURSIVE StrLess(_, _)
StrLess(a, b) ==
    IF a = <<>> THEN b # <<>>
    ELSE IF b = <<>> THEN FALSE
    ELSE IF a[1] # b[1] THEN a[1] < b[1]
    ELSE StrLess(Tail(a), Tail(b))

\* sorted(list of str)
RECURSIVE Sorted(_)
Sorted(S) ==
    IF S = {} THEN <<>>
    ELSE LET m == CHOOSE x \in S : \A y \in S \ {x} : StrLess(x, y)
         IN  <<m>> \o Sorted(S \ {m})

\* os.path.join(dir_path, f) for a dir_path that does not end in '/' (47)
PathJoin(dir_path, f) == dir_path \o <<47>> \o f

\* ".fastq", ".fasta", ".gz"
DotFastq == <<46, 102, 97, 115, 116, 113>>
DotFasta == <<46, 102, 97, 115, 116, 97>>
DotGz == <<46, 103, 122>>

\* faulty variant: the filter without lower()
IsReadFileNameNoLower(f) ==
    \/ EndsWith(f, DotFastq) \/ EndsWith(f, DotFastq \o DotGz)
    \/ EndsWith(f, DotFasta) \/ EndsWith(f, DotFasta \o DotGz)

\* the filter of the directory search (lines 139-140), on the file's name
IsReadFileName(f) ==
    \/ EndsWith(Lower(f), DotFastq) \/ EndsWith(Lower(f), DotFastq \o DotGz)
    \/ EndsWith(Lower(f), DotFasta) \/ EndsWith(Lower(f), DotFasta \o DotGz)

-----------------------------------------------------------------------------
(* The file system of a run *)

\* the value of --input: "in"
InputPath == <<105, 110>>

\* "in/sub", "in/x.fastq" (a directory whose own name looks like a read file)
SubDir == PathJoin(InputPath, <<115, 117, 98>>)
FastqDir == PathJoin(InputPath, <<120>> \o DotFastq)

\* Files that may lie under the input directory: [dir, name] as os.walk gives
\* them, id and reads describe the content, bad says that SeqIO.parse(_, "fastq")
\* raises once the reads are taken (gzip bytes are no FASTQ text).
\*   in/z.fastq  in/A.FASTQ  in/sub/c.fastq  in/x.fastq/notes.txt  in/d.fasta.gz
DirUniverse ==
    { [dir |-> InputPath, name |-> <<122>> \o DotFastq, id |-> 1, reads |-> MaxReads, bad |-> FALSE],
      [dir |-> InputPath, name |-> <<65, 46, 70, 65, 83, 84, 81>>, id |-> 2, reads |-> 1, bad |-> FALSE],
      [dir |-> SubDir, name |-> <<99>> \o DotFastq, id |-> 3, reads |-> 1, bad |-> FALSE],
      [dir |-> FastqDir, name |-> <<110, 111, 116, 101, 115, 46, 116, 120, 116>>, id |-> 4, reads |-> 1, bad |-> FALSE],
      [dir |-> InputPath, name |-> <<100>> \o DotFasta \o DotGz, id |-> 5, reads |-> 0, bad |-> TRUE] }

\* the content of the input path when it is itself a file
InputAsFile == [id |-> 6, reads |-> MaxReads, bad |-> FALSE]

\* the file a path of read_files names
FileAt(path) ==
    IF path = InputPath THEN InputAsFile
    ELSE CHOOSE e \in DirUniverse : PathJoin(e.dir, e.name) = path

\* a line that the output file holds before the run, when it exists
OldLine == <<"old">>

InitialOutput(state) ==
    IF state = "absent" THEN [exists |-> FALSE, lines |-> <<>>]
    ELSE [exists |-> TRUE, lines |-> <<OldLine>>]

\* kind: what os.path.isfile / os.path.isdir say of the input path; entries: the
\* files os.walk finds under it; output: the output path before the run
FileSystems ==
    { [kind |-> "dir", entries |-> e, output |-> o] :
        e \in SUBSET DirUniverse, o \in {"absent", "existing", "unwritable"} }
    \cup
    { [kind |-> k, entries |-> {}, output |-> o] :
        k \in {"file", "missing"}, o \in {"absent", "existing", "unwritable"} }

-----------------------------------------------------------------------------
(* get_input_files *)

ErrNotFound == "Error: could not find <input_path>"
ErrNoReadFiles == "Error: could not find FASTQ/FASTA files in <input_path>"

\* lines 121-147; exit # "" stands for sys.exit(exit)
get_input_files(input_path) ==
    IF fs.kind = "file" THEN [exit |-> "", files |-> <<input_path>>]
    ELSE IF fs.kind = "dir" THEN
        LET found == { PathJoin(e.dir, e.name) : e \in { x \in fs.entries : IsReadFileName(x.name) } }
        IN  IF found = {} THEN [exit |-> ErrNoReadFiles, files |-> <<>>]
            ELSE [exit |-> "", files |-> Sorted(found)]
    ELSE [exit |-> ErrNotFound, files |-> <<>>]

-----------------------------------------------------------------------------
(* Barcode catalogs (readucks/barcodes.py) and the demuxer                 *)
(* (readucks/demuxer.py), as the design document describes them            *)

\* the call of a read that is given no barcode
None == <<"none", 0>>

NATIVE_BARCODES == [i \in 1..24 |-> <<"native", i>>]
PCR_BARCODES == [i \in 1..96 |-> <<"pcr", i>>]
RAPID_BARCODES == [i \in 1..12 |-> <<"rapid", i>>]

\* parasail.matrix_create("ACGT", 2, -1)
MatchScore == 2
MismatchScore == -1

\* One end of a read: the barcode its window carries (None: no barcode), how
\* many of the 20 barcode bases the window matches, and where the alignment
\* starts in the window.
Window(tag, matches, offset) == [tag |-> tag, matches |-> matches, offset |-> offset]

ReadProfiles ==
    << [head |-> Window(<<"native", 5>>, 20, 0), tail |-> Window(<<"native", 5>>, 19, 7)],
       [head |-> Window(<<"native", 1>>, 19, 2), tail |-> Window(<<"native", 2>>, 19, 2)],
       [head |-> Window(None, 0, 0),             tail |-> Window(None, 0, 4)],
       [head |-> Window(<<"native", 2>>, 15, 3), tail |-> Window(<<"native", 2>>, 17, 5)] >>

\* the k-th read of the file with the given id
ReadOf(file_id, k) ==
    LET p == ReadProfiles[((2 * file_id + k) % Len(ReadProfiles)) + 1]
    IN  [name |-> <<file_id, k>>, head |-> p.head, tail |-> p.tail]

\* Alignment of one barcode against one window: a window matches the barcode
\* it carries in window.matches of 20 columns and any other barcode in 8.
Align(barcode, window) ==
    LET m == IF window.tag = barcode THEN window.matches ELSE 8
    IN  [id |-> barcode, start |-> window.offset,
         score |-> MatchScore * m + MismatchScore * (20 - m),
         identity |-> Rat(m, 20), matches |-> m, length |-> 20]

\* a beats b: higher score, then higher identity (then the earlier catalog entry)
Better(a, b) ==
    \/ a.score > b.score
    \/ a.score = b.score /\ ~RatGE(b.identity, a.identity)

\* of two alignments the better one, of equally good ones the first
Best(a, b) == IF Better(b, a) THEN b ELSE a

\* End Scanner: the best alignment over catalog[lo..hi]; of equally good ones
\* the earliest in the catalog
RECURSIVE ScanRange(_, _, _, _)
ScanRange(window, catalog, lo, hi) ==
    IF lo = hi THEN Align(catalog[lo], window)
    ELSE LET mid == (lo + hi) \div 2
         IN  Best(ScanRange(window, catalog, lo, mid), ScanRange(window, catalog, mid + 1, hi))

Scan(window, catalog) == ScanRange(window, catalog, 1, Len(catalog))

\* demux_read(read, barcodes, single_barcode, threshold, secondary_threshold, ...)
\* The result of a single-end run holds a secondary alignment or not
\* (has_secondary): the design document materialises it in double-end mode only.
demux_read(read, catalog, single, thr, sec_thr, has_secondary) ==
    LET head_best == Scan(read.head, catalog)
        tail_best == Scan(read.tail, catalog)
        primary == IF tail_best.score > head_best.score THEN tail_best ELSE head_best
        secondary == IF tail_best.score > head_best.score THEN head_best ELSE tail_best
        call == IF ~RatGE(primary.identity, thr) THEN None
                ELSE IF single THEN primary.id
                ELSE IF secondary.id = primary.id /\ RatGE(secondary.identity, sec_thr)
                     THEN primary.id
                ELSE None
    IN  [name |-> read.name, call |-> call, primary |-> primary,
         secondary |-> secondary, has_secondary |-> has_secondary]

-----------------------------------------------------------------------------
(* process_files and process_read_file: values *)

ErrBarcodeSet == "Unrecognised barcode_set: <barcode_set>"

\* faulty variant: any set name gives the native catalog
CatalogForNativeOnly(name) == [unknown |-> FALSE, barcodes |-> NATIVE_BARCODES]

\* lines 77-85: the catalog of a set name; unknown stands for sys.exit
CatalogFor(name) ==
    IF name = "native" THEN [unknown |-> FALSE, barcodes |-> NATIVE_BARCODES]
    ELSE IF name = "pcr" THEN [unknown |-> FALSE, barcodes |-> PCR_BARCODES]
    ELSE IF name = "rapid" THEN [unknown |-> FALSE, barcodes |-> RAPID_BARCODES]
    ELSE [unknown |-> TRUE, barcodes |-> <<>>]

\* lines 89-92
Header ==
    << "name", "barcode",
       "primary_barcode", "primary_is_start", "primary_score", "primary_identity",
       "primary_matches", "primary_length",
       "secondary_barcode", "secondary_is_start", "secondary_score", "secondary_identity",
       "secondary_matches", "secondary_length" >>

\* faulty variant: column 10 from the secondary result
RowSecondaryStart(result) ==
    << result.name, result.call,
       result.primary.id, result.primary.start, result.primary.score,
       result.primary.identity, result.primary.matches, result.primary.length,
       result.secondary.id, result.secondary.start, result.secondary.score,
       result.secondary.identity, result.secondary.matches, result.secondary.length >>

\* lines 164-167: column 10 repeats result['primary']['start']
Row(result) ==
    << result.name, result.call,
       result.primary.id, result.primary.start, result.primary.score,
       result.primary.identity, result.primary.matches, result.primary.length,
       result.secondary.id, result.primary.start, result.secondary.score,
       result.secondary.identity, result.secondary.matches, result.secondary.length >>

\* faulty variant: reads without a barcode are not counted
RecordCalledOnly(counts, call) ==
    IF call = None THEN counts
    ELSE IF call \in DOMAIN counts THEN [counts EXCEPT ![call] = @ + 1]
    ELSE counts @@ (call :> 1)

\* line 162: barcode_counts[call] += 1 on a defaultdict(int)
Record(counts, call) ==
    IF call \in DOMAIN counts THEN [counts EXCEPT ![call] = @ + 1]
    ELSE counts @@ (call :> 1)

\* faulty variant: reads without a barcode get no row
WriteRowCalledOnly(file, result) ==
    IF result.call = None THEN file
    ELSE [file EXCEPT !.lines = Append(@, Row(result))]

\* lines 164-167 on the open output file
WriteRow(file, result) == [file EXCEPT !.lines = Append(@, Row(result))]

-----------------------------------------------------------------------------
(* get_arguments and main *)

ErrOneSet == "Error: only one of the following options may be used: --native_barcodes, --pcr_barcodes or --rapid_barcodes"
ErrSingle == "Error: the option --secondary_threshold is not available with --single"
ErrPercent == "Error: the options --threshold and --secondary_threshold should be given as percentages"

\* an option of type float: given on the command line with a value, or not given
NotGiven == [given |-> FALSE, value |-> Rat(0, 1)]
Given(x) == [given |-> TRUE, value |-> x]

\* The command lines of the model. limit_barcodes_to is <<>> when the option is
\* not given (nargs='+' never yields an empty list).
ArgvChoices ==
    [ native_barcodes : BOOLEAN, pcr_barcodes : BOOLEAN, rapid_barcodes : BOOLEAN,
      single : BOOLEAN,
      limit_barcodes_to : {<<>>, <<1, 2, 3>>},
      threshold : {NotGiven, Given(Rat(0, 1)), Given(Rat(1, 2)), Given(Rat(1, 1))},
      secondary_threshold : {NotGiven, Given(Rat(0, 1)), Given(Rat(1, 2))} ]

NoArgv ==
    [ native_barcodes |-> FALSE, pcr_barcodes |-> FALSE, rapid_barcodes |-> FALSE,
      single |-> FALSE, limit_barcodes_to |-> <<>>,
      threshold |-> NotGiven, secondary_threshold |-> NotGiven ]

\* parser.parse_args(), lines 190-205 and 213: flags are store_true, the
\* thresholds default to 90.0 and 70.0
parse_args(v) ==
    [ native_barcodes |-> v.native_barcodes, pcr_barcodes |-> v.pcr_barcodes,
      rapid_barcodes |-> v.rapid_barcodes, single |-> v.single,
      limit_barcodes_to |-> v.limit_barcodes_to,
      threshold |-> IF v.threshold.given THEN v.threshold.value ELSE Rat(90, 1),
      secondary_threshold |-> IF v.secondary_threshold.given
                              THEN v.secondary_threshold.value ELSE Rat(70, 1) ]

\* line 215
MoreThanOneSet(a) ==
    \/ a.native_barcodes /\ a.pcr_barcodes
    \/ a.native_barcodes /\ a.rapid_barcodes
    \/ a.pcr_barcodes /\ a.rapid_barcodes

\* line 219
SingleWithSecondary(a) == a.single /\ Truthy(a.secondary_threshold)

\* faulty variant: 1 counts as a fraction
IsFractionInclusive(x) == x.n > 0 /\ x.n <= x.d

\* lines 223-224, for one of the two values: x > 0.0 and x < 1.0
IsFraction(x) == x.n > 0 /\ x.n < x.d

\* lines 213-228; exit # "" stands for sys.exit(exit)
get_arguments(v) ==
    LET a == parse_args(v)
    IN  IF MoreThanOneSet(a) THEN [exit |-> ErrOneSet, args |-> a]
        ELSE IF SingleWithSecondary(a) THEN [exit |-> ErrSingle, args |-> a]
        ELSE IF IsFraction(a.threshold) \/ IsFraction(a.secondary_threshold)
             THEN [exit |-> ErrPercent, args |-> a]
        ELSE [exit |-> "", args |-> a]

\* faulty variant: --rapid_barcodes is not looked at
SelectBarcodeSetNoRapid(a) ==
    IF a.pcr_barcodes THEN "pcr" ELSE "native"

\* lines 39-45: the last flag that is set wins, native when none is
SelectBarcodeSet(a) ==
    IF a.rapid_barcodes THEN "rapid"
    ELSE IF a.pcr_barcodes THEN "pcr"
    ELSE "native"

-----------------------------------------------------------------------------
(* The program *)

Init ==
    /\ fs \in FileSystems
    /\ output_file = InitialOutput(fs.output)
    /\ pc = "start"
    /\ entry = "none"
    /\ exit_msg = ""
    /\ argv = NoArgv
    /\ args = parse_args(NoArgv)
    /\ barcode_set = ""
    /\ limit_barcodes_to = <<>>
    /\ single_barcode = FALSE
    /\ threshold = Rat(0, 1)
    /\ secondary_threshold = Rat(0, 1)
    /\ read_files = <<>>
    /\ barcodes = <<>>
    /\ barcode_counts = <<>>
    /\ index = 1
    /\ read_pos = 0

\* main, line 37: args = get_arguments()
MainGetArguments ==
    /\ pc = "start"
    /\ \E v \in ArgvChoices :
        LET r == get_arguments(v)
        IN  /\ argv' = v
            /\ args' = r.args
            /\ exit_msg' = r.exit
            /\ pc' = IF r.exit = "" THEN "main" ELSE "exit"
    /\ entry' = "cli"
    /\ UNCHANGED <<fs, output_file, params, locals>>

\* main, lines 39-48: the call of process_files
MainCallProcessFiles ==
    /\ pc = "main"
    /\ barcode_set' = SelectBarcodeSet(args)
    /\ limit_barcodes_to' = args.limit_barcodes_to
    /\ single_barcode' = args.single
    /\ threshold' = Div100(args.threshold)
    /\ secondary_threshold' = Div100(args.secondary_threshold)
    /\ pc' = "process_files"
    /\ UNCHANGED <<fs, output_file, entry, exit_msg, argv, args, locals>>

\* process_files called by an importing program, with any set name
CallProcessFiles ==
    /\ pc = "start"
    /\ barcode_set' \in {"native", "pcr", "rapid", "custom"}
    /\ limit_barcodes_to' \in {<<>>, <<1, 2, 3>>}
    /\ single_barcode' \in BOOLEAN
    /\ threshold' = Rat(90, 100)
    /\ secondary_threshold' = Rat(70, 100)
    /\ entry' = "api"
    /\ pc' = "process_files"
    /\ UNCHANGED <<fs, output_file, exit_msg, argv, args, locals>>

\* faulty variant: the output is opened before the input files are looked for
ProcessFilesGetInputFilesAfterOpen ==
    /\ pc = "process_files"
    /\ LET r == get_input_files(InputPath)
       IN  /\ read_files' = r.files
           /\ exit_msg' = r.exit
           /\ pc' = IF r.exit = "" THEN "open" ELSE "exit"
    /\ output_file' = IF fs.output = "unwritable" THEN output_file
                      ELSE [exists |-> TRUE, lines |-> <<>>]
    /\ UNCHANGED <<fs, entry, argv, args, params, barcodes, barcode_counts,
                   index, read_pos>>

\* process_files, lines 59-61: read_files = get_input_files(input_path)
ProcessFilesGetInputFiles ==
    /\ pc = "process_files"
    /\ LET r == get_input_files(InputPath)
       IN  /\ read_files' = r.files
           /\ exit_msg' = r.exit
           /\ pc' = IF r.exit = "" THEN "open" ELSE "exit"
    /\ UNCHANGED <<fs, output_file, entry, argv, args, params, barcodes, barcode_counts,
                   index, read_pos>>

\* process_files, lines 63-92: open(output_path, 'wt') creates or truncates the
\* file or raises; then the counts, the catalog and the header row
ProcessFilesOpen ==
    /\ pc = "open"
    /\ IF fs.output = "unwritable"
       THEN /\ pc' = "crashed"
            /\ exit_msg' = "OSError"
            /\ UNCHANGED <<output_file, locals>>
       ELSE LET c == CatalogFor(barcode_set)
            IN  IF c.unknown
                THEN /\ pc' = "exit"
                     /\ exit_msg' = ErrBarcodeSet
                     /\ output_file' = [exists |-> TRUE, lines |-> <<>>]
                     /\ barcode_counts' = <<>>
                     /\ UNCHANGED <<read_files, barcodes, index, read_pos>>
                ELSE /\ pc' = "loop"
                     /\ output_file' = [exists |-> TRUE, lines |-> <<Header>>]
                     /\ barcode_counts' = <<>>
                     /\ barcodes' = c.barcodes
                     /\ index' = 1
                     /\ read_pos' = 0
                     /\ UNCHANGED <<exit_msg, read_files>>
    /\ UNCHANGED <<fs, entry, argv, args, params>>

\* process_read_file, lines 158-167, one read: classify, count, write the row.
\* Without a secondary alignment in the result, line 166 raises after the count.
ProcessRead ==
    /\ pc = "loop"
    /\ index <= Len(read_files)
    /\ read_pos < FileAt(read_files[index]).reads
    /\ \E has_secondary \in (IF single_barcode THEN BOOLEAN ELSE {TRUE}) :
        LET read == ReadOf(FileAt(read_files[index]).id, read_pos + 1)
            result == demux_read(read, barcodes, single_barcode, threshold,
                                 secondary_threshold, has_secondary)
        IN  /\ barcode_counts' = Record(barcode_counts, result.call)
            /\ read_pos' = read_pos + 1
            /\ IF result.has_secondary
               THEN /\ output_file' = WriteRow(output_file, result)
                    /\ UNCHANGED <<pc, exit_msg>>
               ELSE /\ pc' = "crashed"
                    /\ exit_msg' = "KeyError"
                    /\ UNCHANGED output_file
    /\ UNCHANGED <<fs, entry, argv, args, params, read_files, barcodes, index>>

\* process_read_file, line 158: SeqIO.parse raises on what is no FASTQ text
ProcessReadParseError ==
    /\ pc = "loop"
    /\ index <= Len(read_files)
    /\ read_pos = FileAt(read_files[index]).reads
    /\ FileAt(read_files[index]).bad
    /\ pc' = "crashed"
    /\ exit_msg' = "ValueError"
    /\ UNCHANGED <<fs, output_file, entry, argv, args, params, locals>>

\* process_read_file returns at the end of the file; lines 94-97: the next file
ProcessReadFileEnd ==
    /\ pc = "loop"
    /\ index <= Len(read_files)
    /\ read_pos = FileAt(read_files[index]).reads
    /\ ~FileAt(read_files[index]).bad
    /\ index' = index + 1
    /\ read_pos' = 0
    /\ UNCHANGED <<fs, output_file, pc, entry, exit_msg, argv, args, params,
                   read_files, barcodes, barcode_counts>>

\* process_files, lines 99-117: close the output and print the summary
ProcessFilesFinish ==
    /\ pc = "loop"
    /\ index > Len(read_files)
    /\ pc' = "done"
    /\ UNCHANGED <<fs, output_file, entry, exit_msg, argv, args, params, locals>>

Next ==
    \/ MainGetArguments
    \/ MainCallProcessFiles
    \/ CallProcessFiles
    \/ ProcessFilesGetInputFiles
    \/ ProcessFilesOpen
    \/ ProcessRead
    \/ ProcessReadParseError
    \/ ProcessReadFileEnd
    \/ ProcessFilesFinish

Spec == Init /\ [][Next]_vars

-----------------------------------------------------------------------------
(* Vocabulary of the properties *)

Range(seq) == { seq[i] : i \in 1..Len(seq) }

\* the reads of a file, in source order
FileReads(path) == [k \in 1..FileAt(path).reads |-> ReadOf(FileAt(path).id, k)]

\* the reads of files[i..], file after file
RECURSIVE ReadsFrom(_, _)
ReadsFrom(files, i) ==
    IF i > Len(files) THEN <<>> ELSE FileReads(files[i]) \o ReadsFrom(files, i + 1)

\* every read of the run, in processing order
RunReads == ReadsFrom(read_files, 1)

\* the number of reads that all the files before files[i] hold
RECURSIVE ReadsBefore(_, _)
ReadsBefore(files, i) ==
    IF i <= 1 THEN 0 ELSE ReadsBefore(files, i - 1) + FileAt(files[i - 1]).reads

\* the number of reads classified so far
Classified == ReadsBefore(read_files, index) + read_pos

\* what the classifier answers for a read under the parameters of the run
ResultOf(read) ==
    demux_read(read, barcodes, single_barcode, threshold, secondary_threshold, TRUE)

ArgumentErrors == {ErrOneSet, ErrSingle, ErrPercent}

InputErrors == {ErrNotFound, ErrNoReadFiles}

\* process_files has been called
Called == pc \notin {"start", "main"} /\ exit_msg \notin ArgumentErrors

\* get_input_files has returned or exited
Searched == Called /\ pc # "process_files"

FlagCount(a) ==
    (IF a.native_barcodes THEN 1 ELSE 0) + (IF a.pcr_barcodes THEN 1 ELSE 0)
    + (IF a.rapid_barcodes THEN 1 ELSE 0)

\* 0 < x < 1
StrictlyBetween0And1(x) == x.n * x.d > 0 /\ x.n < x.d

ValidSets == {"native", "pcr", "rapid"}

-----------------------------------------------------------------------------
(* C1 *)

\* C1: when process_files completes, in single-end and in double-end mode, the
\* output holds the header row and then one row per read: row k is the row of
\* the k-th read (files in the order of get_input_files, reads in source order).
C1_OneRowPerReadInOrder ==
    pc = "done" =>
        /\ output_file.exists
        /\ Len(output_file.lines) = 1 + Len(RunReads)
        /\ output_file.lines[1] = Header
        /\ \A k \in 1..Len(RunReads) :
            /\ output_file.lines[k + 1][1] = RunReads[k].name
            /\ output_file.lines[k + 1][2] = ResultOf(RunReads[k]).call

C1_Witness ==
    /\ pc = "done"
    /\ Len(read_files) >= 3
    /\ Len(output_file.lines) >= 4

-----------------------------------------------------------------------------
(* C2 *)

RECURSIVE SumCounts(_, _)
SumCounts(counts, keys) ==
    IF keys = {} THEN 0
    ELSE LET c == CHOOSE x \in keys : TRUE
         IN  counts[c] + SumCounts(counts, keys \ {c})

\* C2: at every point of a run the counts sum to the number of reads classified
\* so far, and the count of each call (None included) is the number of reads
\* classified so far that were given that call; before the first read and in a
\* run that stops early the counts are accordingly empty.
C2_CountsFollowReads ==
    LET calls == [k \in 1..Classified |-> ResultOf(RunReads[k]).call]
    IN  /\ SumCounts(barcode_counts, DOMAIN barcode_counts) = Classified
        /\ Range(calls) = DOMAIN barcode_counts
        /\ \A c \in DOMAIN barcode_counts :
            barcode_counts[c] = Cardinality({ k \in 1..Classified : calls[k] = c })

C2_Witness ==
    /\ Classified >= 3
    /\ None \in DOMAIN barcode_counts
    /\ Cardinality(DOMAIN barcode_counts) >= 2

-----------------------------------------------------------------------------
(* C3 *)

\* restrict(catalog, ids) of the design document
Restrict(catalog, ids) ==
    IF ids = <<>> THEN catalog
    ELSE SelectSeq(catalog, LAMBDA b : b[2] \in Range(ids))

\* C3: the catalog handed to the classifier is the selected set restricted to
\* the ids of --limit_barcodes_to (the whole set when the option is absent), and
\* no read is called with a barcode outside a given list.
C3_LimitRestrictsCatalog ==
    (entry = "cli" /\ pc \in {"loop", "done"}) =>
        /\ barcodes = Restrict(CatalogFor(barcode_set).barcodes, limit_barcodes_to)
        /\ limit_barcodes_to # <<>> =>
            \A c \in DOMAIN barcode_counts : c = None \/ c[2] \in Range(limit_barcodes_to)

-----------------------------------------------------------------------------
(* C4 *)

\* C4: when at most one catalog flag is given, get_arguments exits with the
\* "--secondary_threshold is not available with --single" error exactly when
\* --single comes with an explicitly given --secondary_threshold; --single
\* without that option is accepted and process_files runs with single_barcode.
C4_SingleErrorOnlyWithExplicitSecondary ==
    (entry = "cli" /\ FlagCount(args) <= 1) =>
        /\ (exit_msg = ErrSingle) <=> (argv.single /\ argv.secondary_threshold.given)
        /\ (argv.single /\ ~argv.secondary_threshold.given
               /\ ~StrictlyBetween0And1(args.threshold)) => pc # "exit"
        /\ (argv.single /\ Called) => single_barcode

-----------------------------------------------------------------------------
(* C5 *)

\* C5: with two or more of --native_barcodes, --pcr_barcodes, --rapid_barcodes
\* the program exits inside get_arguments, before process_files is called; with
\* exactly one, process_files uses the catalog that flag names; with none, the
\* native catalog.
C5_CatalogFlags ==
    entry = "cli" =>
        LET want == IF args.rapid_barcodes THEN <<"rapid", RAPID_BARCODES>>
                    ELSE IF args.pcr_barcodes THEN <<"pcr", PCR_BARCODES>>
                    ELSE <<"native", NATIVE_BARCODES>>
        IN  /\ FlagCount(args) >= 2 => (pc = "exit" /\ exit_msg \in ArgumentErrors)
            /\ Called => (FlagCount(args) <= 1 /\ barcode_set = want[1])
            /\ pc \in {"loop", "done"} => barcodes = want[2]

C5_Witness ==
    /\ entry = "cli"
    /\ pc = "loop"
    /\ args.rapid_barcodes
    /\ barcodes = RAPID_BARCODES
    /\ Len(output_file.lines) >= 2

-----------------------------------------------------------------------------
(* C6 *)

\* C6 as stated: the program exits with the "should be given as percentages"
\* error if and only if --threshold or --secondary_threshold lies strictly
\* between 0 and 1.
C6_PercentErrorIffFraction ==
    entry = "cli" =>
        ((exit_msg = ErrPercent) <=>
            (StrictlyBetween0And1(args.threshold)
                \/ StrictlyBetween0And1(args.secondary_threshold)))

\* C6 amended: the program exits with the "should be given as percentages" error
\* if and only if neither earlier check of get_arguments has ended it (at most
\* one catalog flag is given, and not --single with a non-zero
\* secondary_threshold) and --threshold or --secondary_threshold lies strictly
\* between 0 and 1; 0, 1 and every value of at least 1 pass the check, and an
\* accepted percentage p reaches process_files as p / 100.
C6_PercentErrorAfterEarlierChecks ==
    entry = "cli" =>
        /\ (exit_msg = ErrPercent) <=>
            /\ FlagCount(args) <= 1
            /\ ~(args.single /\ args.secondary_threshold.n # 0)
            /\ \/ StrictlyBetween0And1(args.threshold)
               \/ StrictlyBetween0And1(args.secondary_threshold)
        /\ (\A x \in {args.threshold, args.secondary_threshold} : x.n <= 0 \/ x.n >= x.d)
               => exit_msg # ErrPercent
        /\ Called =>
            /\ threshold.n * 100 * args.threshold.d = args.threshold.n * threshold.d
            /\ secondary_threshold.n * 100 * args.secondary_threshold.d
                   = args.secondary_threshold.n * secondary_threshold.d

C6_Witness ==
    /\ pc = "exit"
    /\ exit_msg = ErrPercent
    /\ args.threshold = Rat(1, 1)
    /\ args.secondary_threshold = Rat(1, 2)

-----------------------------------------------------------------------------
(* C7 *)

\* the lower-cased name ends in .fastq, .fastq.gz, .fasta or .fasta.gz
HasReadSuffix(name) ==
    LET low == [i \in 1..Len(name) |->
                   IF name[i] \in 65..90 THEN name[i] + 32 ELSE name[i]]
    IN  \E k \in 0..Len(name) :
            [i \in 1..(Len(name) - k) |-> low[k + i]] \in
                { <<46, 102, 97, 115, 116, 113>>, <<46, 102, 97, 115, 116, 113, 46, 103, 122>>,
                  <<46, 102, 97, 115, 116, 97>>, <<46, 102, 97, 115, 116, 97, 46, 103, 122>> }

\* a sorts strictly before b
PathBefore(a, b) ==
    \E k \in 1..(Len(b)) :
        /\ \A i \in 1..(k - 1) : i <= Len(a) /\ a[i] = b[i]
        /\ k > Len(a) \/ a[k] < b[k]

\* C7: get_input_files exits or returns a non-empty list: for an existing file
\* that one path; for a directory the files found under it whose lower-cased
\* name has one of the four suffixes, all of them and no other, in sorted order,
\* and a fatal error when there is none; for any other path a fatal error.
C7_InputFiles ==
    Searched =>
        LET want == { PathJoin(e.dir, e.name) : e \in { x \in fs.entries : HasReadSuffix(x.name) } }
            returned == exit_msg \notin InputErrors
        IN  /\ returned => read_files # <<>>
            /\ ~returned => (pc = "exit" /\ read_files = <<>>)
            /\ fs.kind = "file" => (returned /\ read_files = <<InputPath>>)
            /\ fs.kind = "missing" => exit_msg = ErrNotFound
            /\ (fs.kind = "dir" /\ want = {}) => exit_msg = ErrNoReadFiles
            /\ (fs.kind = "dir" /\ want # {}) =>
                /\ returned
                /\ Range(read_files) = want
                /\ \A i, j \in 1..Len(read_files) :
                    i < j => PathBefore(read_files[i], read_files[j])

C7_Witness ==
    /\ pc = "open"
    /\ fs.kind = "dir"
    /\ fs.entries = DirUniverse
    /\ Len(read_files) = 4

-----------------------------------------------------------------------------
(* C8 *)

\* C8 as stated: process_files called with a set name other than native, pcr
\* and rapid ends with the "Unrecognised barcode_set" error.
C8_UnknownSetAlwaysRejected ==
    (Called /\ barcode_set \notin ValidSets /\ pc \in {"exit", "crashed", "done"}) =>
        (pc = "exit" /\ exit_msg = ErrBarcodeSet)

\* C8 amended: process_files called with a set name other than native, pcr and
\* rapid, once get_input_files has returned its list and the output file has
\* been opened, exits with the "Unrecognised barcode_set" error; in no such call
\* is the header row written, a read classified or a count changed; for each of
\* the three valid names the fixed catalog of that name is used and that error
\* never raised.
C8_UnknownSetRejectedAfterOpen ==
    Called =>
        /\ barcode_set \notin ValidSets =>
            /\ pc \notin {"loop", "done"}
            /\ (Searched /\ pc # "open" /\ exit_msg \notin InputErrors /\ exit_msg # "OSError")
                   => (pc = "exit" /\ exit_msg = ErrBarcodeSet)
            /\ \A i \in 1..Len(output_file.lines) : output_file.lines[i] = OldLine
            /\ Classified = 0
            /\ DOMAIN barcode_counts = {}
        /\ barcode_set \in ValidSets =>
            /\ exit_msg # ErrBarcodeSet
            /\ pc \in {"loop", "done"} =>
                barcodes = (CASE barcode_set = "native" -> NATIVE_BARCODES
                              [] barcode_set = "pcr" -> PCR_BARCODES
                              [] barcode_set = "rapid" -> RAPID_BARCODES)

C8_Witness ==
    /\ pc = "exit"
    /\ exit_msg = ErrBarcodeSet
    /\ barcode_set = "custom"
    /\ output_file = [exists |-> TRUE, lines |-> <<>>]

-----------------------------------------------------------------------------
(* C9 *)

\* the rows of reads written so far: line k + 1 is the row of read k
RowCount == IF pc \in {"loop", "done", "crashed"} /\ Len(output_file.lines) >= 1
               /\ output_file.lines[1] = Header
            THEN Len(output_file.lines) - 1 ELSE 0

\* C9: in every row written, column 10 (secondary_is_start) holds the start of
\* the primary result, columns 9 and 11-14 the secondary result's barcode,
\* score, identity, matches and length, and columns 3-8 the primary result's six
\* fields.
C9_SecondaryStartIsPrimaryStart ==
    \A k \in 1..RowCount :
        LET row == output_file.lines[k + 1]
            r == ResultOf(RunReads[k])
        IN  /\ row[10] = r.primary.start
            /\ <<row[9], row[11], row[12], row[13], row[14]>> =
                   <<r.secondary.id, r.secondary.score, r.secondary.identity,
                     r.secondary.matches, r.secondary.length>>
            /\ <<row[3], row[4], row[5], row[6], row[7], row[8]>> =
                   <<r.primary.id, r.primary.start, r.primary.score, r.primary.identity,
                     r.primary.matches, r.primary.length>>

C9_Witness ==
    \E k \in 1..RowCount :
        /\ ResultOf(RunReads[k]).secondary.start # ResultOf(RunReads[k]).primary.start
        /\ output_file.lines[k + 1][10] = ResultOf(RunReads[k]).primary.start

-----------------------------------------------------------------------------
(* C10 *)

\* C10: a run whose input path does not exist, or whose directory search finds
\* no read file, ends with the output path as it was before the run (not
\* created, not truncated, no header); the output file differs from what it was
\* before the run only after get_input_files has returned a non-empty list.
C10_OutputUntouchedWithoutInput ==
    /\ exit_msg \in InputErrors =>
        /\ output_file.exists = InitialOutput(fs.output).exists
        /\ output_file.lines = InitialOutput(fs.output).lines
    /\ (\/ output_file.exists # InitialOutput(fs.output).exists
        \/ Len(output_file.lines) # Len(InitialOutput(fs.output).lines)
        \/ \E i \in 1..Len(output_file.lines) : output_file.lines[i] # OldLine)
         => (read_files # <<>> /\ exit_msg \notin InputErrors)

C10_Witness ==
    /\ pc = "exit"
    /\ exit_msg = ErrNoReadFiles
    /\ fs.kind = "dir"
    /\ fs.entries # {}
    /\ fs.output = "existing"
    /\ output_file.lines = <<OldLine>>

====
